---- MODULE Spec2Model ----
(***************************************************************************)
(* Model of empyscripts.fdesign: the grid-axis builder _ls2ar, the         *)
(* goodness evaluator _get_min_val and the grid-search driver design.      *)
(*                                                                         *)
(* Floats are modelled as exact rationals.  An axis descriptor carries a   *)
(* common denominator den, its start, stop and step being counted in units *)
(* of 1/den.  Scores and amplitudes are records [k, n, d]: k = "fin" for   *)
(* the rational n/d, "inf" for +infinity and "nan" for NaN, compared as    *)
(* IEEE-754 / numpy compare them.                                          *)
(***************************************************************************)
EXTENDS Integers, Sequences, FiniteSets, TLC

VARIABLES
    axInp,      \* _ls2ar: the input inp (a scalar is a one-element sequence)
    axOut,      \* _ls2ar: the returned descriptor, or the raised ValueError
    axPts,      \* the points np.arange(*descriptor) yields
    axPc,       \* "idle" (SpecAxis not running), "call", "done"
    cvar,       \* _get_min_val: reduction mode, "amp" or "r"
    r,          \* the evaluation points r of the check (index 0 .. len(r)-1)
    verb,       \* level of verbosity, 0 .. 2
    fI,         \* names of the inversion pairs
    fC,         \* names of the check pairs
    log,        \* the log dict: cnt1, cnt2, totnr, warn-r
    evPc,       \* position in _get_min_val: "idle", "approx", "reduce", "iter", "ret", "done";
                \* in the runs of design "idle", "solve", "loop", "ret"
    evI,        \* loop index i over fC
    rhs,        \* approximation of the current check pair over r (kinds)
    imin,       \* breakdown index of the determining pair (-1: not yet set)
    min_val,    \* scalar of the determining pair
    hist,       \* per check pair handled so far: its imin0, min_val0, kind of rhs
    score,      \* the value _get_min_val returned
    pc,         \* position in design: "idle", "start", "rhs", "grid", "finish", "final", "report", "qc", "save", "done", "error"
    spacing,    \* design's parameter spacing (a float is a one-element sequence)
    shift,      \* design's parameter shift
    ispacing,   \* _ls2ar(spacing, 'spacing')
    ishift,     \* _ls2ar(shift, 'shift')
    finish,     \* design's parameter finish: TRUE for True or a callable
    probe,      \* whether brute's np.vectorize calls the function once on the first
                \* grid point to find its output type (it does so up to scipy 1.2)
    probed,     \* that call has been made
    evFor,      \* what the running _get_min_val call is for: "probe", "grid", "trial", "qc"
    Jout,       \* scores of the grid points evaluated so far, in enumeration order
    Jimin,      \* the imin of each of these evaluations
    calls,      \* number of _get_min_val calls made for each grid point
    nTrials,    \* number of _get_min_val calls the local minimizer has made
    best,       \* position in Jout of the point brute retains (0: none yet)
    full0,      \* full[0]: the winning point, on the grid or a trial point of the minimizer
    dlf,        \* the filter design returns
    err,        \* the exception design raised ("" for none)
    n,          \* filter length
    r_def,      \* r_def[2], the factor: _calculate_filter inverts on factor*n points
    sing,       \* the (spacing, shift, pair) for which qr or solve raise LinAlgError
    spaceshift, \* the (spacing, shift) a filter is asked for
    pf,         \* the filter the last _calculate_filter call of _get_min_val returned
    cfPc,       \* "idle" (SpecFilter not running), "call", "done"
    nSolve,     \* number of _calculate_filter calls made
    fCin,       \* how the caller passed fC: "none", "own" objects, the "same" objects as fI
    rhsI,       \* rhs attribute of each of the caller's fI objects: "func" or "array"
    rhsC,       \* rhs attribute of each object of fC when these are not the objects of
                \* fI: the objects the caller passed, or the copies of line 217
    name,       \* design's parameter name ("None": not given)
    plot,       \* level of plot-verbosity, 0 .. 3
    save,       \* design's parameter save
    full_output,\* design's parameter full_output
    io,         \* which function has called which printing, plotting or saving routine
    store,      \* whether ./filters exists, and its shelves: name -> keys 'dlf' and 'out'
    ldOut,      \* what the last load_filter call returned or raised
    lastSave,   \* the arguments of the last save_filter call
    stPc,       \* "idle" (no call yet), "saved", "loaded": the last call
    vCall,      \* printinfo.versions: the arguments of the call
    vEnv,       \* the optional modules that can be imported
    vOut,       \* what the call printed, returned or raised
    vPc         \* "idle" (SpecVersions not running), "call", "done"

axVars == <<axInp, axOut, axPts, axPc>>
evVars == <<cvar, r, verb, fI, fC, log, evPc, evI, rhs, imin, min_val, hist, score>>
dsVars == <<pc, spacing, shift, ispacing, ishift, finish, probe, probed, evFor,
            Jout, Jimin, calls, nTrials, best, full0, dlf, err>>
cfVars == <<n, r_def, sing, spaceshift, pf, cfPc, nSolve>>
prVars == <<fCin, rhsI, rhsC>>
ioVars == <<name, plot, save, full_output, io>>
stVars == <<store, ldOut, lastSave, stPc>>
piVars == <<vCall, vEnv, vOut, vPc>>
vars == <<axVars, evVars, dsVars, cfVars, prVars, ioVars, stVars, piVars>>

\* ------------------------------------------------------------------ bounds

\* Axis inputs of SpecAxis are sequences over -AxMax..AxMax of length 0..MaxInpLen.
AxMax == 3
MaxInpLen == 4

AxVals == (0 - AxMax)..AxMax

\* All sequences over S of length n.
SeqsOfLen(S, len) == [1..len -> S]

AxisInputs == UNION {SeqsOfLen(AxVals, len) : len \in 0..MaxInpLen}

\* ------------------------------------------------------------- _ls2ar

\* ceil(a/b) for b # 0, as np.arange computes its length.
CeilDiv(a, b) ==
    LET aa == IF b < 0 THEN 0 - a ELSE a
        bb == IF b < 0 THEN 0 - b ELSE b
    IN  0 - ((0 - aa) \div bb)

NoAxis == [err |-> "none", den |-> 1, start |-> 0, stop |-> 0, step |-> 1]

\* Mutant: the upper bound is not nudged by step/2.
Ls2arNoNudge(inp, strinp) ==
    IF Len(inp) \notin {1, 3}
    THEN [err |-> strinp, den |-> 1, start |-> 0, stop |-> 0, step |-> 1]
    ELSE LET start == inp[1]
             stop  == IF Len(inp) = 1 THEN inp[1] + 1 ELSE inp[2]
             num   == IF Len(inp) = 1 THEN 1 ELSE inp[3]
         IN  IF num < 2 \/ start = stop
             THEN [err |-> "", den |-> 2, start |-> 2 * start,
                   stop |-> 2 * start + 1, step |-> 2]
             ELSE [err |-> "", den |-> 2 * (num - 1),
                   start |-> 2 * (num - 1) * start,
                   stop |-> 2 * (num - 1) * stop,
                   step |-> 2 * (stop - start)]

\* Mutant: the degenerate branch forgets "stop = start".
Ls2arKeepStop(inp, strinp) ==
    IF Len(inp) \notin {1, 3}
    THEN [err |-> strinp, den |-> 1, start |-> 0, stop |-> 0, step |-> 1]
    ELSE LET start == inp[1]
             stop  == IF Len(inp) = 1 THEN inp[1] + 1 ELSE inp[2]
             num   == IF Len(inp) = 1 THEN 1 ELSE inp[3]
         IN  IF num < 2 \/ start = stop
             THEN [err |-> "", den |-> 2, start |-> 2 * start,
                   stop |-> 2 * stop + 1, step |-> 2]
             ELSE [err |-> "", den |-> 2 * (num - 1),
                   start |-> 2 * (num - 1) * start,
                   stop |-> 2 * (num - 1) * stop + (stop - start),
                   step |-> 2 * (stop - start)]

\* Mutant: any input size is accepted (its first element read as a scalar).
Ls2arNoSizeCheck(inp, strinp) ==
    LET start == IF Len(inp) = 0 THEN 0 ELSE inp[1]
        stop  == IF Len(inp) = 3 THEN inp[2] ELSE start + 1
        num   == IF Len(inp) = 3 THEN inp[3] ELSE 1
    IN  IF num < 2 \/ start = stop
        THEN [err |-> "", den |-> 2, start |-> 2 * start,
              stop |-> 2 * start + 1, step |-> 2]
        ELSE [err |-> "", den |-> 2 * (num - 1),
              start |-> 2 * (num - 1) * start,
              stop |-> 2 * (num - 1) * stop + (stop - start),
              step |-> 2 * (stop - start)]

\* _ls2ar(inp, strinp): (start, stop + step/2, step), or ValueError(strinp).
\* The regular branch has step = (stop - start)/(num - 1); with
\* den = 2*(num - 1) the three returned numbers are whole multiples of 1/den.
\* The degenerate branch returns (start, start + 1/2, 1), den = 2.
Ls2ar(inp, strinp) ==
    IF Len(inp) \notin {1, 3}
    THEN [err |-> strinp, den |-> 1, start |-> 0, stop |-> 0, step |-> 1]
    ELSE LET start == inp[1]
             stop  == IF Len(inp) = 1 THEN inp[1] + 1 ELSE inp[2]
             num   == IF Len(inp) = 1 THEN 1 ELSE inp[3]
         IN  IF num < 2 \/ start = stop
             THEN [err |-> "", den |-> 2, start |-> 2 * start,
                   stop |-> 2 * start + 1, step |-> 2]
             ELSE [err |-> "", den |-> 2 * (num - 1),
                   start |-> 2 * (num - 1) * start,
                   stop |-> 2 * (num - 1) * stop + (stop - start),
                   step |-> 2 * (stop - start)]

\* np.arange(start, stop, step).size = max(0, ceil((stop - start)/step)).
ArangeSize(a) ==
    LET c == CeilDiv(a.stop - a.start, a.step)
    IN  IF c < 0 THEN 0 ELSE c

\* np.arange(start, stop, step): start + i*step for i = 0 .. size-1 (units 1/den).
Arange(a) == [i \in 1..ArangeSize(a) |-> a.start + (i - 1) * a.step]


\* ------------------------------------------------------------- floats

Fin(num, d) == [k |-> "fin", n |-> num, d |-> d]
NaN == [k |-> "nan", n |-> 0, d |-> 1]
Inf == [k |-> "inf", n |-> 1, d |-> 1]
\* A name not yet bound.
NoVal == [k |-> "none", n |-> 0, d |-> 1]

IntAbs(x) == IF x < 0 THEN 0 - x ELSE x

IntMax(a, b) == IF a > b THEN a ELSE b

\* a > b on floats: False as soon as one of them is NaN.
FGt(a, b) ==
    /\ a.k # "nan"
    /\ b.k # "nan"
    /\ \/ a.k = "inf" /\ b.k = "fin"
       \/ a.k = "fin" /\ b.k = "fin" /\ a.n * b.d > b.n * a.d

\* a == b on floats: False as soon as one of them is NaN.
FEq(a, b) ==
    /\ a.k # "nan"
    /\ b.k # "nan"
    /\ \/ a.k = "inf" /\ b.k = "inf"
       \/ a.k = "fin" /\ b.k = "fin" /\ a.n * b.d = b.n * a.d

\* np.abs
FAbs(a) == IF a.k = "fin" THEN Fin(IntAbs(a.n), a.d) ELSE a

\* 1/x for an evaluation point x > 0
Recip(x) == Fin(1, x)

\* ------------------------------------------------ the check of goodness

\* Length of r, the evaluation points of the check; number of check pairs.
RLen == 3
MaxPairs == 2

\* Number of points of r in the calls of SpecSkip.
SkipLen == 10

Idx == 0..(RLen - 1)

\* error = 0.01
ErrNum == 1
ErrDen == 100

\* The pre-evaluated reference f.rhs = f.rhs(r) of a check pair: finite, non-zero,
\* decaying with r.
RefScale == 100
RefAt(i) == RefScale * (IntMax(RLen, SkipLen) - i)

\* What np.dot(lhs, J)/r can be at one evaluation point: exactly zero, the
\* reference (relative error 0), twice the reference (relative error 1), NaN, inf.
Kinds == {"zero", "good", "bad", "nan", "inf"}

ValOf(kd, i) ==
    CASE kd = "zero" -> Fin(0, 1)
      [] kd = "good" -> Fin(RefAt(i), 1)
      [] kd = "bad"  -> Fin(2 * RefAt(i), 1)
      [] kd = "nan"  -> NaN
      [] OTHER       -> Inf

ApproxSet == [Idx -> Kinds]

\* The evaluation points r: positive; ascending as np.logspace gives them, or not.
RSet == {[i \in Idx |-> i + 1], [i \in Idx |-> RLen - i]}

\* np.abs((rhs - f.rhs)/f.rhs) > error at one point, f the (non-zero) reference.
RelErrGt(v, f) ==
    CASE v.k = "nan" -> FALSE
      [] v.k = "inf" -> TRUE
      [] OTHER       -> IntAbs(v.n - f * v.d) * ErrDen > ErrNum * IntAbs(f) * v.d

\* np.where(rel_error > error)[0]
Where(a) == {i \in DOMAIN a : RelErrGt(ValOf(a[i], i), RefAt(i))}

\* np.all(rhs == 0)
AllZero(a) == \A i \in DOMAIN a : FEq(ValOf(a[i], i), Fin(0, 1))

\* np.all(np.isnan(rhs))
AllNaN(a) == \A i \in DOMAIN a : ValOf(a[i], i).k = "nan"

\* imin0[j] of the ascending index array imin0
Nth(S, j) == CHOOSE x \in S : Cardinality({y \in S : y < x}) = j

\* "Permit to jump up to four bad values": imin0.size > 4, imin0[4] - 5
SkipCount == 4
SkipOffset == 5

\* Mutant: the fifth violation minus 4.
Imin0OffsetFour(a) ==
    LET w == Where(a)
    IN  IF AllZero(a) \/ AllNaN(a) THEN 0
        ELSE IF w = {} THEN Cardinality(DOMAIN a) - 1
        ELSE IF Cardinality(w) > SkipCount
             THEN IntMax(0, Nth(w, SkipCount) - SkipCount)
             ELSE IntMax(0, Nth(w, 0) - 1)

\* Mutant: the fifth violation itself, nothing subtracted.
Imin0AtFifth(a) ==
    LET w == Where(a)
    IN  IF AllZero(a) \/ AllNaN(a) THEN 0
        ELSE IF w = {} THEN Cardinality(DOMAIN a) - 1
        ELSE IF Cardinality(w) > SkipCount
             THEN IntMax(0, Nth(w, SkipCount))
             ELSE IntMax(0, Nth(w, 0) - 1)

\* Mutant: no jumping, the first violation always counts.
Imin0NoSkip(a) ==
    LET w == Where(a)
    IN  IF AllZero(a) \/ AllNaN(a) THEN 0
        ELSE IF w = {} THEN Cardinality(DOMAIN a) - 1
        ELSE IntMax(0, Nth(w, 0) - 1)

\* The breakdown index imin0 of one check pair.
Imin0(a) ==
    LET w == Where(a)
    IN  IF AllZero(a) \/ AllNaN(a) THEN 0
        ELSE IF w = {} THEN Cardinality(DOMAIN a) - 1
        ELSE IF Cardinality(w) > SkipCount
             THEN IntMax(0, Nth(w, SkipCount) - SkipOffset)
             ELSE IntMax(0, Nth(w, 0) - 1)

\* The branch that warns about a too short r: no violation at all.
NoViolation(a) == ~(AllZero(a) \/ AllNaN(a)) /\ Where(a) = {}

\* Mutant: the two reduction modes are swapped.
MinVal0Swapped(a, i0, cv, rr) ==
    IF cv = "amp" THEN Recip(rr[i0]) ELSE FAbs(ValOf(a[i0], i0))

\* min_val0: minimum amplitude, or 1/maxr.
MinVal0(a, i0, cv, rr) ==
    IF cv = "amp" THEN FAbs(ValOf(a[i0], i0)) ELSE Recip(rr[i0])

\* Mutant: the pair with the smaller scalar replaces the stored one.
BetterSmaller(i, mv0, mv) == i = 0 \/ FGt(mv, mv0)

\* "if i == 0 ... else if min_val0 > min_val": this pair replaces the stored one.
Better(i, mv0, mv) == i = 0 \/ FGt(mv0, mv)

\* Mutant: once the warning is recorded every score is infinity.
ScoreIfWarned(im, mv) == IF im = 0 \/ log.warn = 1 THEN Inf ELSE mv

\* Mutant: the score is returned as it is, whatever imin.
ScoreNoInf(im, mv) == mv

\* np.where(imin == 0, np.inf, min_val)
Score(im, mv) == IF im = 0 THEN Inf ELSE mv

\* log as design initializes it; cnt1 is kept multiplied by totnr, so that the
\* percentage cp = cnt2/totnr*100 stored in it stays a whole number.
NewLog(totnr) == [cnt1 |-> 0 - totnr, cnt2 |-> 0 - 1, totnr |-> totnr, warn |-> 0]

\* _print_count(log)
PrintCount(l) ==
    LET c2  == l.cnt2 + 1
        cpN == c2 * 100
    IN  IF c2 = 0 THEN [l EXCEPT !.cnt2 = c2]
        ELSE IF c2 > l.totnr THEN [l EXCEPT !.cnt2 = c2]
        ELSE IF \/ (cpN \div l.totnr) * l.totnr > l.cnt1
                \/ cpN < l.totnr
                \/ c2 = l.totnr
             THEN [l EXCEPT !.cnt2 = c2, !.cnt1 = cpN]
             ELSE [l EXCEPT !.cnt2 = c2]

\* What a check pair's approximation is, for the record kept in hist.
RhsKind(a) ==
    IF \A i \in DOMAIN a : a[i] = "zero" THEN "zero"
    ELSE IF \A i \in DOMAIN a : a[i] \in {"nan", "inf"} THEN "nonfinite"
    ELSE "other"

NoRhs == <<>>

\* Names of the transform pairs, in the order the lists of SpecEval hold them.
NameAt(i) == IF i = 1 THEN "j0" ELSE IF i = 2 THEN "j1" ELSE IF i = 3 THEN "sin" ELSE "cos"

\* Mutant: the call of lines 284-285 gets the plot of design.
EvPlotOfDesign == plot

\* The verb and plot parameters of the running call of _get_min_val: those of
\* design, but 0 and plot+1 in the call of lines 284-285.
EvVerb == IF evFor = "qc" THEN 0 ELSE verb

EvPlot == IF evFor = "qc" THEN plot + 1 ELSE plot

\* Calls of the printing, plotting and saving routines are recorded in io as
\* pairs <<caller, routine>>.
Called(caller, routine, cond) == IF cond THEN {<<caller, routine>>} ELSE {}

\* Mutant: the warning is recorded whatever verb is.
WarnNowAnyVerb(a) == NoViolation(a) /\ log.warn = 0

\* Lines 977-981: the warning about a too short r is printed and recorded.
WarnNow(a) == NoViolation(a) /\ EvVerb > 0 /\ log.warn = 0

\* Lines 966-1014 of the loop body for the approximation a of check pair evI.
Reduce(a) ==
    LET i0  == Imin0(a)
        mv0 == MinVal0(a, i0, cvar, r)
    IN  /\ log' = IF WarnNow(a) THEN [log EXCEPT !.warn = 1] ELSE log
        /\ io' = io \cup Called("_get_min_val", "_plot_inversion", EvPlot > 2)
        /\ IF Better(evI, mv0, min_val)
           THEN imin' = i0 /\ min_val' = mv0
           ELSE UNCHANGED <<imin, min_val>>

\* The record hist keeps of the check pair with approximation a.
HistOf(a) ==
    [imin0 |-> Imin0(a), min_val0 |-> MinVal0(a, Imin0(a), cvar, r), kind |-> RhsKind(a)]

\* ------------------------------------- SpecEval: one call of _get_min_val

\* ------------------------------------------------------ _calculate_filter

\* Filter length n of SpecFilter is 1 .. NMax.
NMax == 3

\* np.exp(x/den): positive, and ordered as its argument is.
Exp(x) == [pos |-> TRUE, ln |-> x]

IntMin(a, b) == IF a < b THEN a ELSE b

\* J = np.zeros((base.size,))
Zeros(size) == [zero |-> TRUE, len |-> size]

\* The coefficients J of the pair named tag at the point pt, for a base of nb
\* points and m = r_def[2]*n points r.  np.linalg.qr(lhs) of the (m, nb) matrix
\* gives rr of shape (min(m, nb), nb); np.linalg.solve raises a LinAlgError
\* unless rr is square, and when rr is singular; the lhs of a j2 pair is a tuple
\* of two matrices, which qr refuses.  J then is np.zeros((base.size,)).
SolveJ(tag, pt, nb, m, sg) ==
    LET k == IntMin(m, nb)
    IN  IF tag = "j2" \/ k # nb \/ <<pt, tag>> \in sg
        THEN Zeros(nb)
        ELSE [zero |-> FALSE, len |-> k]

\* Mutant: the zero fallback has the size of r instead of the size of base.
CalcFilterZerosR(nn, pt, f, fac, nm, sg, id) ==
    [id   |-> id,
     name |-> nm,
     den  |-> pt.den,
     base |-> [i \in 1..nn |-> Exp(pt.sp * ((i - 1) - (nn \div 2)) + pt.sh)],
     coef |-> [tag \in {f[i] : i \in 1..Len(f)} |->
                  IF SolveJ(tag, pt, nn, fac * nn, sg).zero
                  THEN Zeros(fac * nn)
                  ELSE SolveJ(tag, pt, nn, fac * nn, sg)]]

\* _calculate_filter(n, spacing, shift, fI, r_def, reim, name); id tells the
\* DigitalFilter instances apart.  base = exp(spacing*(arange(n) - n//2) + shift).
CalcFilter(nn, pt, f, fac, nm, sg, id) ==
    LET base == [i \in 1..nn |-> Exp(pt.sp * ((i - 1) - (nn \div 2)) + pt.sh)]
    IN  [id   |-> id,
         name |-> nm,
         den  |-> pt.den,
         base |-> base,
         coef |-> [tag \in {f[i] : i \in 1..Len(f)} |->
                      SolveJ(tag, pt, Len(base), fac * nn, sg)]]

NoCoord == [sp |-> 0, sh |-> 0, den |-> 1]

NoFilter == [id |-> 0, name |-> "", den |-> 1, base |-> <<>>, coef |-> <<>>]

NoPoint == [on |-> FALSE, idx |-> 0]

\* ------------------------------------------------ save_filter, load_filter

\* full = None: no output of brute.
NoFull == [x0 |-> NoPoint, Jout |-> <<>>]

\* A shelf that has neither the key 'dlf' nor the key 'out'.
NoEntry == [dlf |-> NoFilter, out |-> NoFull]

\* The shelves: whether the directory ./filters exists, and the shelf of each name
\* there is one for.
NoDir == [dir |-> FALSE, db |-> <<>>]
EmptyDir == [dir |-> TRUE, db |-> <<>>]

\* The shelf filters/nm as shelve.open finds or creates it.
Shelf(st, nm) == IF nm \in DOMAIN st.db THEN st.db[nm] ELSE NoEntry

\* The shelves with the shelf of nm replaced by e.
WithShelf(st, nm, e) ==
    [dir |-> TRUE, db |-> [x \in DOMAIN st.db \cup {nm} |-> IF x = nm THEN e ELSE st.db[x]]]

\* save_filter(nm, flt, full) on the shelves st: the directory is made, the shelf
\* filters/nm is opened (created if there is none), 'dlf' is set, and 'out' is
\* set if full is given; a key that is not set keeps the value the shelf has.
SaveFilter(st, nm, flt, full) ==
    WithShelf(st, nm, [dlf |-> flt,
                       out |-> IF full # NoFull THEN full ELSE Shelf(st, nm).out])

\* What load_filter(nm, full=fl) returns or raises on the shelves st.
LoadFilter(st, nm, fl) ==
    LET e == Shelf(st, nm)
        one == IF e.dlf # NoFilter
               THEN [name |-> nm, full |-> fl, res |-> "dlf", dlf |-> e.dlf, out |-> NoFull]
               ELSE [name |-> nm, full |-> fl, res |-> "KeyError", dlf |-> NoFilter, out |-> NoFull]
    IN  IF ~st.dir THEN [name |-> nm, full |-> fl, res |-> "OSError", dlf |-> NoFilter, out |-> NoFull]
        ELSE IF fl /\ e.dlf # NoFilter /\ e.out # NoFull
             THEN [name |-> nm, full |-> fl, res |-> "pair", dlf |-> e.dlf, out |-> e.out]
             ELSE one

\* The shelves after load_filter(nm): shelve.open has created the shelf if the
\* directory is there and the shelf was not.
AfterLoad(st, nm) == IF st.dir THEN WithShelf(st, nm, Shelf(st, nm)) ELSE st

\* ------------------------------------------------ parts that are not running

CfIdle ==
    /\ n = 0
    /\ r_def = 0
    /\ sing = {}
    /\ spaceshift = NoCoord
    /\ pf = NoFilter
    /\ cfPc = "idle"
    /\ nSolve = 0

PrIdle ==
    /\ fCin = "none"
    /\ rhsI = <<>>
    /\ rhsC = <<>>

IoIdle ==
    /\ name = "None"
    /\ plot = 0
    /\ save = FALSE
    /\ full_output = FALSE
    /\ io = {}

NoLoad == [name |-> "", full |-> FALSE, res |-> "none", dlf |-> NoFilter, out |-> NoFull]

NoSave == [name |-> "", filt |-> NoFilter, full |-> NoFull]

StIdle ==
    /\ store = NoDir
    /\ ldOut = NoLoad
    /\ lastSave = NoSave
    /\ stPc = "idle"

NoCall == [pos |-> <<>>, kw |-> "none"]

NoOut == [how |-> "none", form |-> "none", lines |-> <<>>]

PiIdle ==
    /\ vCall = NoCall
    /\ vEnv = {}
    /\ vOut = NoOut
    /\ vPc = "idle"

AxIdle ==
    /\ axInp = <<>>
    /\ axOut = NoAxis
    /\ axPts = <<>>
    /\ axPc = "idle"

EvIdle ==
    /\ cvar = "amp"
    /\ r = <<>>
    /\ verb = 0
    /\ fI = <<>>
    /\ fC = <<>>
    /\ log = NewLog(1)
    /\ evPc = "idle"
    /\ evI = 0
    /\ rhs = NoRhs
    /\ imin = 0 - 1
    /\ min_val = NoVal
    /\ hist = <<>>
    /\ score = NoVal

DsIdle ==
    /\ pc = "idle"
    /\ spacing = <<>>
    /\ shift = <<>>
    /\ ispacing = NoAxis
    /\ ishift = NoAxis
    /\ finish = FALSE
    /\ probe = FALSE
    /\ probed = FALSE
    /\ evFor = "none"
    /\ Jout = <<>>
    /\ Jimin = <<>>
    /\ calls = <<>>
    /\ nTrials = 0
    /\ best = 0
    /\ full0 = NoPoint
    /\ dlf = NoFilter
    /\ err = ""

EvalInit ==
    /\ AxIdle
    /\ DsIdle
    /\ CfIdle /\ PrIdle /\ IoIdle /\ StIdle /\ PiIdle
    /\ cvar \in {"amp", "r"}
    /\ r \in RSet
    /\ verb \in 0..2
    /\ \E np \in 1..MaxPairs : fC = [i \in 1..np |-> NameAt(i)]
    /\ fI = fC
    /\ \E w \in {0, 1} : log = [NewLog(1) EXCEPT !.warn = w]
    /\ evPc = "approx"
    /\ evI = 0
    /\ rhs = NoRhs
    /\ imin = 0 - 1
    /\ min_val = NoVal
    /\ hist = <<>>
    /\ score = NoVal

\* Lines 956-964: the approximation of check pair evI with the probe filter.
EvalApprox ==
    /\ UNCHANGED <<cfVars, prVars, ioVars, stVars, piVars>>
    /\ evPc = "approx"
    /\ rhs' \in ApproxSet
    /\ evPc' = "reduce"
    /\ UNCHANGED <<axVars, dsVars, cvar, r, verb, fI, fC, log, evI, imin, min_val, hist, score>>

\* Lines 966-1010: breakdown index, scalar, comparison with the previous pairs.
EvalReduce ==
    /\ UNCHANGED <<cfVars, prVars, stVars, piVars>>
    /\ UNCHANGED <<name, plot, save, full_output>>
    /\ evPc = "reduce"
    /\ Reduce(rhs)
    /\ hist' = Append(hist, HistOf(rhs))
    /\ evPc' = "iter"
    /\ UNCHANGED <<axVars, dsVars, cvar, r, verb, fI, fC, evI, rhs, score>>

\* The loop goes on to the next check pair; rhs of the finished one is dead.
EvalIter ==
    /\ UNCHANGED <<cfVars, prVars, ioVars, stVars, piVars>>
    /\ evPc = "iter"
    /\ evI' = evI + 1
    /\ rhs' = NoRhs
    /\ evPc' = IF evI + 1 < Len(fC) THEN "approx" ELSE "ret"
    /\ UNCHANGED <<axVars, dsVars, cvar, r, verb, fI, fC, log, imin, min_val, hist, score>>

\* Lines 1016-1021: progress count and the returned score.
EvalReturn ==
    /\ UNCHANGED <<cfVars, prVars, stVars, piVars>>
    /\ UNCHANGED <<name, plot, save, full_output>>
    /\ evPc = "ret"
    /\ log' = IF EvVerb > 1 THEN PrintCount(log) ELSE log
    /\ io' = io \cup Called("_get_min_val", "_print_count", EvVerb > 1)
    /\ score' = Score(imin, min_val)
    /\ evPc' = "done"
    /\ UNCHANGED <<axVars, dsVars, cvar, r, verb, fI, fC, evI, rhs, imin, min_val, hist>>

EvalNext == EvalApprox \/ EvalReduce \/ EvalIter \/ EvalReturn

SpecEval == EvalInit /\ [][EvalNext]_vars

\* ------------------- SpecSkip: one call of _get_min_val with a longer r

SkipIdx == 0..(SkipLen - 1)

\* Approximations over the longer r: within or beyond the tolerance at each
\* point, all zero, all NaN, zero from the second point on.
SkipPatterns ==
    [SkipIdx -> {"good", "bad"}]
    \cup {[i \in SkipIdx |-> "zero"], [i \in SkipIdx |-> "nan"],
          [i \in SkipIdx |-> IF i = 0 THEN "good" ELSE "zero"]}

SkipInit ==
    /\ AxIdle
    /\ DsIdle
    /\ CfIdle /\ PrIdle /\ IoIdle /\ StIdle /\ PiIdle
    /\ cvar \in {"amp", "r"}
    /\ r = [i \in SkipIdx |-> i + 1]
    /\ verb \in {0, 1}
    /\ fC = <<"j0">>
    /\ fI = fC
    /\ log = NewLog(1)
    /\ evPc = "approx"
    /\ evI = 0
    /\ rhs = NoRhs
    /\ imin = 0 - 1
    /\ min_val = NoVal
    /\ hist = <<>>
    /\ score = NoVal

\* Lines 956-964: the approximation of the check pair over r.
SkipApprox ==
    /\ UNCHANGED <<cfVars, prVars, ioVars, stVars, piVars>>
    /\ evPc = "approx"
    /\ rhs' \in SkipPatterns
    /\ evPc' = "reduce"
    /\ UNCHANGED <<axVars, dsVars, cvar, r, verb, fI, fC, log, evI, imin, min_val, hist, score>>

SkipNext == SkipApprox \/ EvalReduce \/ EvalIter \/ EvalReturn

SpecSkip == SkipInit /\ [][SkipNext]_vars


\* ------------------------------------------------ Spec: one run of design

\* The spacing and shift inputs of the runs: a float, a linspace-tuple
\* (start, stop, num), an input of a wrong size.
SpacingSet == {<<1>>, <<1, 2, 2>>, <<1, 2>>}
ShiftSet == {<<0>>, <<0, 1, 2>>, <<0, 1, 2, 3>>}

\* The inversion pairs fI of the runs, by the names of the pairs.
FISet == {<<"j0">>, <<"j0", "j1">>, <<"j2">>, <<"j0", "j2">>}

\* Approximations of a check pair in the runs of design: within or beyond the
\* tolerance at each point, or NaN from the second point on.
DriverApprox ==
    [Idx -> {"good", "bad"}] \cup {[i \in Idx |-> IF i = 0 THEN "good" ELSE "nan"]}

\* Number of function calls the local minimizer makes at most.
MaxTrials == 1

Names(f) == {f[i] : i \in 1..Len(f)}

\* The coefficient arrays of dlf the check of the pair named tag reads with getattr.
Needs(tag) == IF tag = "j2" THEN {"j0", "j1"} ELSE {tag}

\* Mutant: the size of the shift axis instead of the product of the two sizes.
GridSizeShift(isp, ish) == ArangeSize(ish)

\* np.arange(*ispacing).size*np.arange(*ishift).size; the size of brute's grid.
GridSize(isp, ish) == ArangeSize(isp) * ArangeSize(ish)

\* The (spacing, shift) of the grid point at position p of the enumeration:
\* np.mgrid, flattened in C order, has spacing as the outer and shift as the
\* inner axis.
PointAt(p) ==
    LET nsh == ArangeSize(ishift)
    IN  <<Arange(ispacing)[((p - 1) \div nsh) + 1], Arange(ishift)[((p - 1) % nsh) + 1]>>

\* The same point as the (spacing, shift) _get_min_val and _calculate_filter get,
\* in units of 1/den, den the product of the denominators of the two axes.
GridCoordOf(isp, ish, p) ==
    LET nsh == ArangeSize(ish)
    IN  [sp  |-> Arange(isp)[((p - 1) \div nsh) + 1] * ish.den,
         sh  |-> Arange(ish)[((p - 1) % nsh) + 1] * isp.den,
         den |-> isp.den * ish.den]

GridCoord(p) == GridCoordOf(ispacing, ishift, p)

\* Mutant: the local minimizer starts at the first grid point.
TrialCoordFirst(t) == [GridCoord(1) EXCEPT !.sh = @ + (t - 1)]

\* The t-th point the local minimizer calls the function at: it starts at x0, the
\* grid point brute retained, and moves on from there.
TrialCoord(t) == [GridCoord(best) EXCEPT !.sh = @ + (t - 1)]

\* The (spacing, shift) of full[0].
CoordOf(pt) == IF pt.on THEN GridCoord(pt.idx) ELSE TrialCoord(pt.idx)

\* Mutant: the final filter gets the name of the probe filters.
NameOfProbe == "filt"

\* full as brute returns it: the point full[0] and the scores of the grid.
FullOut == [x0 |-> full0, Jout |-> Jout]

\* name, or its default 'dlf_'+str(n).
NameOrDefault == IF name = "None" THEN "dlf_" \o ToString(n) ELSE name

\* The approximation of a check pair all of whose coefficient arrays are zeros:
\* np.dot(lhs, J)/r is zero at every point of r.
ZeroApprox == [i \in Idx |-> "zero"]

\* The approximations the check pair named tag can have with the probe filter flt.
ApproxWith(flt, tag) ==
    IF \A t \in Needs(tag) : flt.coef[t].zero THEN {ZeroApprox} ELSE DriverApprox

\* np.argmin(Jout.ravel()): the first NaN if there is one, else the first minimum.
ArgMin(J) ==
    IF \E i \in 1..Len(J) : J[i].k = "nan"
    THEN CHOOSE i \in 1..Len(J) :
             J[i].k = "nan" /\ \A j \in 1..(i - 1) : J[j].k # "nan"
    ELSE CHOOSE i \in 1..Len(J) :
             /\ \A j \in 1..Len(J) : ~FGt(J[i], J[j])
             /\ \A j \in 1..(i - 1) : FGt(J[j], J[i])

\* n = 2, r_def = (1, 1, 2), no system is singular.
SolveDefault ==
    /\ n = 2
    /\ r_def = 2
    /\ sing = {}

\* fC is not given; the rhs of every pair of fI is a function.
PairsDefault ==
    /\ fCin = "none"
    /\ fC = <<>>
    /\ rhsI = [i \in 1..Len(fI) |-> "func"]
    /\ rhsC = <<>>

\* No name, nothing plotted, nothing saved, only the filter returned.
OutDefault ==
    /\ name = "None"
    /\ plot = 0
    /\ save = FALSE
    /\ full_output = FALSE
    /\ store = NoDir

\* The grid point p of the run, before _ls2ar has been called.
InitCoord(p) == GridCoordOf(Ls2ar(spacing, "spacing"), Ls2ar(shift, "shift"), p)

\* Runs over the grids, the inversion pairs and the levels of verbosity.
RunsGrid ==
    /\ spacing \in SpacingSet
    /\ shift \in ShiftSet
    /\ fI \in FISet
    /\ cvar \in {"amp", "r"}
    /\ verb \in 0..2
    /\ finish \in BOOLEAN
    /\ probe \in BOOLEAN
    /\ SolveDefault /\ PairsDefault /\ OutDefault

\* Runs over a grid of two points in which some of the systems are singular.
RunsSolve ==
    /\ spacing = <<1>>
    /\ shift = <<0, 1, 2>>
    /\ fI \in {<<"j0">>, <<"j0", "j1">>}
    /\ cvar \in {"amp", "r"}
    /\ verb = 0
    /\ finish \in BOOLEAN
    /\ probe = FALSE
    /\ n = 2
    /\ r_def = 2
    /\ sing \in {{<<InitCoord(1), "j0">>}, {<<InitCoord(2), "j0">>},
                 {<<InitCoord(1), "j0">>, <<InitCoord(2), "j0">>},
                 {<<InitCoord(2), "j1">>}}
    /\ PairsDefault /\ OutDefault

\* Runs in which the caller passes fC, as objects of its own or as the objects
\* of fI, and runs with pair objects as an earlier run has left them.
RunsPairs ==
    /\ spacing = <<1>>
    /\ shift = <<0>>
    /\ fI \in {<<"j0">>, <<"j0", "j1">>}
    /\ cvar = "amp"
    /\ verb = 0
    /\ finish = FALSE
    /\ probe = FALSE
    /\ SolveDefault /\ OutDefault
    /\ \E kI, kC \in {"func", "array"} :
        /\ rhsI = [i \in 1..Len(fI) |-> kI]
        /\ \/ fCin = "none" /\ fC = <<>> /\ rhsC = <<>> /\ kC = "func" /\ kI = "array"
           \/ fCin = "same" /\ fC = fI /\ rhsC = <<>> /\ kC = "func"
           \/ /\ fCin = "own"
              /\ fC \in {<<"j0">>, <<"j1">>, <<"j2">>, <<"j0", "j1">>}
              /\ rhsC = [i \in 1..Len(fC) |-> kC]

\* A filter and an output of brute that an earlier run has saved.
OldFilter == [id |-> 0, name |-> "a", den |-> 1, base |-> <<Exp(0)>>,
              coef |-> [tag \in {"j0"} |-> Zeros(1)]]
OldFull == [x0 |-> [on |-> TRUE, idx |-> 1], Jout |-> <<Inf>>]

\* Runs over the levels of plot and verb, on a grid of one point.
RunsOut ==
    /\ spacing = <<1>>
    /\ shift = <<0>>
    /\ fI = <<"j0">>
    /\ cvar = "amp"
    /\ verb \in {0, 2}
    /\ finish \in BOOLEAN
    /\ probe = FALSE
    /\ SolveDefault /\ PairsDefault
    /\ name = "None"
    /\ plot \in 0..3
    /\ save = FALSE
    /\ full_output = FALSE
    /\ store = NoDir

\* Runs that save or do not save the filter, with the shelves empty or as an
\* earlier run with the same name and full_output has left them.
RunsSave ==
    /\ spacing = <<1>>
    /\ shift = <<0>>
    /\ fI = <<"j0">>
    /\ cvar = "amp"
    /\ verb = 0
    /\ finish = FALSE
    /\ probe = FALSE
    /\ SolveDefault /\ PairsDefault
    /\ name \in {"None", "a"}
    /\ plot = 0
    /\ save \in BOOLEAN
    /\ full_output \in BOOLEAN
    /\ store \in {NoDir, EmptyDir, SaveFilter(NoDir, "a", OldFilter, OldFull)}

DesignInit ==
    /\ AxIdle
    /\ PiIdle
    /\ \/ RunsGrid
       \/ RunsSolve
       \/ RunsPairs
       \/ RunsOut
       \/ RunsSave
    /\ pc = "start"
    /\ r = [i \in Idx |-> i + 1]
    /\ ispacing = NoAxis
    /\ ishift = NoAxis
    /\ probed = FALSE
    /\ evFor = "none"
    /\ Jout = <<>>
    /\ Jimin = <<>>
    /\ calls = <<>>
    /\ nTrials = 0
    /\ best = 0
    /\ full0 = NoPoint
    /\ dlf = NoFilter
    /\ err = ""
    /\ log = NewLog(1)
    /\ evPc = "idle"
    /\ evI = 0
    /\ rhs = NoRhs
    /\ imin = 0 - 1
    /\ min_val = NoVal
    /\ hist = <<>>
    /\ score = NoVal
    /\ spaceshift = NoCoord
    /\ pf = NoFilter
    /\ cfPc = "idle"
    /\ nSolve = 0
    /\ io = {}
    /\ ldOut = NoLoad
    /\ lastSave = NoSave
    /\ stPc = "idle"

\* f.rhs(r) can be called for every pair of the list: no rhs is an array.
AllCallable(q) == \A i \in 1..Len(q) : q[i] = "func"

\* Lines 205-245: fC defaults to a copy of fI, the check of fI[0].name, the two
\* _ls2ar calls, the log dict.
DesignStart ==
    /\ UNCHANGED <<cfVars, fCin, rhsI, stVars, piVars>>
    /\ UNCHANGED <<name, plot, save, full_output>>
    /\ pc = "start"
    /\ io' = io \cup Called("design", "printstartfinish", TRUE)
    /\ fC' = IF fC = <<>> THEN fI ELSE fC
    /\ rhsC' = IF fC = <<>> THEN rhsI ELSE rhsC
    /\ LET isp == Ls2ar(spacing, "spacing")
           ish == Ls2ar(shift, "shift")
       IN  IF fI[1] = "j2"
           THEN /\ pc' = "error" /\ err' = "j2"
                /\ UNCHANGED <<ispacing, ishift, log, calls>>
           ELSE IF isp.err # ""
           THEN /\ pc' = "error" /\ err' = isp.err
                /\ UNCHANGED <<ispacing, ishift, log, calls>>
           ELSE IF ish.err # ""
           THEN /\ pc' = "error" /\ err' = ish.err
                /\ ispacing' = isp
                /\ UNCHANGED <<ishift, log, calls>>
           ELSE /\ pc' = "rhs" /\ err' = ""
                /\ ispacing' = isp
                /\ ishift' = ish
                /\ log' = NewLog(GridSize(isp, ish))
                /\ calls' = [p \in 1..GridSize(isp, ish) |-> 0]
    /\ UNCHANGED <<axVars, cvar, r, verb, fI, evPc, evI, rhs, imin, min_val, hist, score,
                   spacing, shift, finish, probe, probed, evFor, Jout, Jimin, nTrials,
                   best, full0, dlf>>

\* Lines 247-255: the reference values of the check pairs.
DesignRhs ==
    /\ UNCHANGED <<cfVars, fCin, stVars, piVars>>
    /\ UNCHANGED <<name, plot, save, full_output>>
    /\ pc = "rhs"
    /\ LET tgt == IF fCin = "same" THEN rhsI ELSE rhsC
           bad == {i \in 1..Len(tgt) : tgt[i] = "array"}
           new == [i \in 1..Len(tgt) |-> IF \E j \in bad : j <= i THEN tgt[i] ELSE "array"]
       IN  /\ IF fCin = "same"
              THEN rhsI' = new /\ UNCHANGED rhsC
              ELSE rhsC' = new /\ UNCHANGED rhsI
           /\ pc' = IF bad = {} THEN "grid" ELSE "error"
           /\ err' = IF bad = {} THEN err ELSE "TypeError"
           /\ io' = io \cup Called("design", "_call_qc_transform_pairs", bad = {} /\ plot > 1)
    /\ UNCHANGED <<axVars, evVars, spacing, shift, ispacing, ishift, finish, probe, probed,
                   evFor, Jout, Jimin, calls, nTrials, best, full0, dlf>>

\* A call of _get_min_val begins (lines 942-947).
BeginEval(what, pt) ==
    /\ evFor' = what
    /\ spaceshift' = pt
    /\ evPc' = "solve"
    /\ evI' = 0
    /\ imin' = 0 - 1
    /\ min_val' = NoVal
    /\ score' = NoVal

\* brute calls the function for the next grid point, in enumeration order; with
\* np.vectorize it first calls it once more for the first grid point.
BruteCall ==
    /\ UNCHANGED <<prVars, ioVars, stVars, piVars>>
    /\ UNCHANGED <<n, r_def, sing, pf, cfPc, nSolve>>
    /\ pc = "grid"
    /\ evPc = "idle"
    /\ Len(Jout) < GridSize(ispacing, ishift)
    /\ BeginEval(IF probe /\ ~probed THEN "probe" ELSE "grid", GridCoord(Len(Jout) + 1))
    /\ calls' = [calls EXCEPT ![Len(Jout) + 1] = @ + 1]
    /\ UNCHANGED <<axVars, cvar, r, verb, fI, fC, log, rhs, hist, pc, spacing, shift,
                   ispacing, ishift, finish, probe, probed, Jout, Jimin, nTrials, best,
                   full0, dlf, err>>

\* Line 950: the probe filter of the candidate. A pair of fI named j2 has a tuple
\* as lhs; np.linalg.qr refuses it with a LinAlgError (zeros are stored) ...
EvalSolve ==
    /\ UNCHANGED <<prVars, ioVars, stVars, piVars>>
    /\ UNCHANGED <<n, r_def, sing, spaceshift, cfPc>>
    /\ pf' = CalcFilter(n, spaceshift, fI, r_def, "filt", sing, nSolve + 1)
    /\ nSolve' = nSolve + 1
    /\ evPc = "solve"
    /\ AllCallable(rhsI)
    /\ evPc' = "loop"
    /\ UNCHANGED <<axVars, dsVars, cvar, r, verb, fI, fC, log, evI, rhs, imin, min_val,
                   hist, score>>

\* ... or, with a numpy that factors stacked matrices, the solve fails on the
\* shapes with an error that is not caught.
EvalSolveRaise ==
    /\ UNCHANGED <<prVars, ioVars, stVars, piVars>>
    /\ UNCHANGED <<n, r_def, sing, spaceshift, pf, cfPc>>
    /\ nSolve' = nSolve + 1
    /\ evPc = "solve"
    /\ AllCallable(rhsI)
    /\ "j2" \in Names(fI)
    /\ evPc' = "idle"
    /\ pc' = "error"
    /\ err' = "solve"
    /\ UNCHANGED <<axVars, cvar, r, verb, fI, fC, log, evI, rhs, imin, min_val, hist, score,
                   spacing, shift, ispacing, ishift, finish, probe, probed, evFor, Jout,
                   Jimin, calls, nTrials, best, full0, dlf>>

\* Line 1047: f.rhs(r) of an inversion pair whose rhs has been replaced by an
\* array raises a TypeError.
EvalSolveNotCallable ==
    /\ UNCHANGED <<prVars, ioVars, stVars, piVars>>
    /\ UNCHANGED <<n, r_def, sing, spaceshift, pf, cfPc>>
    /\ nSolve' = nSolve + 1
    /\ evPc = "solve"
    /\ ~AllCallable(rhsI)
    /\ evPc' = "idle"
    /\ pc' = "error"
    /\ err' = "TypeError"
    /\ UNCHANGED <<axVars, cvar, r, verb, fI, fC, log, evI, rhs, imin, min_val, hist, score,
                   spacing, shift, ispacing, ishift, finish, probe, probed, evFor, Jout,
                   Jimin, calls, nTrials, best, full0, dlf>>

\* Lines 956-1014 for check pair evI: approximation, breakdown index, scalar;
\* rhs and hist keep the approximation and the record of the pair.
EvalPair ==
    /\ UNCHANGED <<cfVars, prVars, stVars, piVars>>
    /\ UNCHANGED <<name, plot, save, full_output>>
    /\ evPc = "loop"
    /\ Needs(fC[evI + 1]) \subseteq Names(fI)
    /\ \E a \in ApproxWith(pf, fC[evI + 1]) :
           /\ Reduce(a)
           /\ rhs' = a
           /\ hist' = Append(hist, HistOf(a))
    /\ evI' = evI + 1
    /\ evPc' = IF evI + 1 < Len(fC) THEN "loop" ELSE "ret"
    /\ UNCHANGED <<axVars, dsVars, cvar, r, verb, fI, fC, score>>

\* Lines 960-964: getattr(dlf, name) of a coefficient array the filter has not.
EvalPairRaise ==
    /\ UNCHANGED <<cfVars, prVars, ioVars, stVars, piVars>>
    /\ evPc = "loop"
    /\ ~(Needs(fC[evI + 1]) \subseteq Names(fI))
    /\ evPc' = "idle"
    /\ pc' = "error"
    /\ err' = "AttributeError"
    /\ UNCHANGED <<axVars, cvar, r, verb, fI, fC, log, evI, rhs, imin, min_val, hist, score,
                   spacing, shift, ispacing, ishift, finish, probe, probed, evFor, Jout,
                   Jimin, calls, nTrials, best, full0, dlf>>

\* Lines 1016-1021: progress count, the returned score; brute stores the score
\* of a grid point, np.vectorize drops the one of its first call. The locals of
\* the call end with it.
EvalDone ==
    /\ UNCHANGED <<cfVars, prVars, stVars, piVars>>
    /\ UNCHANGED <<name, plot, save, full_output>>
    /\ evPc = "ret"
    /\ log' = IF EvVerb > 1 THEN PrintCount(log) ELSE log
    /\ io' = io \cup Called("_get_min_val", "_print_count", EvVerb > 1)
    /\ pc' = IF evFor = "qc" THEN "save" ELSE pc
    /\ evPc' = "idle"
    /\ probed' = (probed \/ evFor = "probe")
    /\ IF evFor = "grid"
       THEN Jout' = Append(Jout, Score(imin, min_val)) /\ Jimin' = Append(Jimin, imin)
       ELSE UNCHANGED <<Jout, Jimin>>
    /\ evI' = 0
    /\ imin' = 0 - 1
    /\ min_val' = NoVal
    /\ rhs' = NoRhs
    /\ hist' = <<>>
    /\ UNCHANGED <<axVars, cvar, r, verb, fI, fC, score,
                   spacing, shift, ispacing, ishift, finish, probe, evFor, calls,
                   nTrials, best, full0, dlf, err>>

\* brute: the grid is done; the point of minimal score is retained.
BruteArgmin ==
    /\ UNCHANGED <<cfVars, prVars, ioVars, stVars, piVars>>
    /\ pc = "grid"
    /\ evPc = "idle"
    /\ Len(Jout) = GridSize(ispacing, ishift)
    /\ best' = ArgMin(Jout)
    /\ full0' = [on |-> TRUE, idx |-> best']
    /\ pc' = IF finish THEN "finish" ELSE "final"
    /\ UNCHANGED <<axVars, evVars, spacing, shift, ispacing, ishift, finish, probe, probed,
                   evFor, Jout, Jimin, calls, nTrials, dlf, err>>

\* brute: finish (fmin_powell, or the callable) calls the function at a trial point.
FinishCall ==
    /\ UNCHANGED <<prVars, ioVars, stVars, piVars>>
    /\ UNCHANGED <<n, r_def, sing, pf, cfPc, nSolve>>
    /\ pc = "finish"
    /\ evPc = "idle"
    /\ nTrials < MaxTrials
    /\ nTrials' = nTrials + 1
    /\ BeginEval("trial", TrialCoord(nTrials + 1))
    /\ UNCHANGED <<axVars, cvar, r, verb, fI, fC, log, rhs, hist, pc, spacing, shift,
                   ispacing, ishift, finish, probe, probed, Jout, Jimin, calls, best,
                   full0, dlf, err>>

\* brute: finish returns; full[0] is its result, the start or a point it tried.
FinishDone ==
    /\ UNCHANGED <<cfVars, prVars, ioVars, stVars, piVars>>
    /\ pc = "finish"
    /\ evPc = "idle"
    /\ nTrials >= 1
    /\ \E p \in {[on |-> TRUE, idx |-> best]} \cup {[on |-> FALSE, idx |-> t] : t \in 1..nTrials} :
           full0' = p
    /\ pc' = "final"
    /\ UNCHANGED <<axVars, evVars, spacing, shift, ispacing, ishift, finish, probe, probed,
                   evFor, Jout, Jimin, calls, nTrials, best, dlf, err>>

\* Lines 262-269: the filter of full[0] is calculated.
DesignFinal ==
    /\ UNCHANGED <<prVars, ioVars, stVars, piVars>>
    /\ UNCHANGED <<n, r_def, sing, spaceshift, pf, cfPc>>
    /\ nSolve' = nSolve + 1
    /\ pc = "final"
    /\ dlf' = CalcFilter(n, CoordOf(full0), fI, r_def, NameOrDefault, sing, nSolve + 1)
    /\ pc' = "report"
    /\ UNCHANGED <<axVars, evVars, spacing, shift, ispacing, ishift, finish, probe, probed,
                   evFor, Jout, Jimin, calls, nTrials, best, full0, err>>

\* Mutant: the inversion of the best filter is shown at every plot > 0.
QcWantedAny == plot > 0

\* Line 282: the inversion of the best filter is shown.
QcWanted == plot > 1

\* Lines 271-285: the result is printed and plotted; with plot > 1 _get_min_val
\* is called for full[0], with verb 0 and plot+1.
DesignReport ==
    /\ UNCHANGED <<prVars, stVars, piVars>>
    /\ UNCHANGED <<name, plot, save, full_output>>
    /\ pc = "report"
    /\ io' = io \cup Called("design", "print_result", verb > 1)
                \cup Called("design", "printstartfinish", TRUE)
                \cup Called("design", "plot_result", plot > 0)
    /\ IF QcWanted
       THEN /\ pc' = "qc"
            /\ BeginEval("qc", CoordOf(full0))
            /\ UNCHANGED <<n, r_def, sing, pf, cfPc, nSolve>>
       ELSE /\ pc' = "save"
            /\ UNCHANGED <<cfVars, evFor, evPc, evI, imin, min_val, score>>
    /\ UNCHANGED <<axVars, cvar, r, verb, fI, fC, log, rhs, hist, spacing, shift,
                   ispacing, ishift, finish, probe, probed, Jout, Jimin, calls, nTrials,
                   best, full0, dlf, err>>

\* Lines 287-298: the filter is saved if save is set, with the output of brute
\* if full_output is set, and returned.
DesignReturn ==
    /\ UNCHANGED <<cfVars, prVars, piVars>>
    /\ UNCHANGED <<name, plot, save, full_output>>
    /\ pc = "save"
    /\ evPc = "idle"
    /\ io' = io \cup Called("design", "save_filter", save)
    /\ store' = IF save
                THEN SaveFilter(store, NameOrDefault, dlf,
                                IF full_output THEN FullOut ELSE NoFull)
                ELSE store
    /\ pc' = "done"
    /\ UNCHANGED <<axVars, evVars, spacing, shift, ispacing, ishift, finish, probe, probed,
                   evFor, Jout, Jimin, calls, nTrials, best, full0, dlf, err,
                   ldOut, lastSave, stPc>>

Next ==
    \/ DesignStart
    \/ DesignRhs
    \/ BruteCall
    \/ EvalSolve
    \/ EvalSolveRaise
    \/ EvalSolveNotCallable
    \/ EvalPair
    \/ EvalPairRaise
    \/ EvalDone
    \/ BruteArgmin
    \/ FinishCall
    \/ FinishDone
    \/ DesignFinal
    \/ DesignReport
    \/ DesignReturn

Spec == DesignInit /\ [][Next]_vars

\* ------------------------------------------------- SpecAxis: _ls2ar alone

AxisInit ==
    /\ axInp \in AxisInputs
    /\ axOut = NoAxis
    /\ axPts = <<>>
    /\ axPc = "call"
    /\ EvIdle
    /\ DsIdle
    /\ CfIdle /\ PrIdle /\ IoIdle /\ StIdle /\ PiIdle

\* One call of _ls2ar, followed by the iteration of the returned range.
AxisCall ==
    /\ UNCHANGED <<cfVars, prVars, ioVars, stVars, piVars>>
    /\ axPc = "call"
    /\ axOut' = Ls2ar(axInp, "spacing")
    /\ axPts' = IF axOut'.err = "" THEN Arange(axOut') ELSE <<>>
    /\ axPc' = "done"
    /\ UNCHANGED <<axInp, evVars, dsVars>>

AxisNext == AxisCall

SpecAxis == AxisInit /\ [][AxisNext]_vars

\* ------------------------------------------ SpecFilter: _calculate_filter alone

FilterInit ==
    /\ AxIdle /\ DsIdle /\ PrIdle /\ IoIdle /\ StIdle /\ PiIdle
    /\ cvar = "amp"
    /\ r = <<>>
    /\ verb = 0
    /\ fI \in {<<"j0">>, <<"j0", "j1">>}
    /\ fC = <<>>
    /\ log = NewLog(1)
    /\ evPc = "idle"
    /\ evI = 0
    /\ rhs = NoRhs
    /\ imin = 0 - 1
    /\ min_val = NoVal
    /\ hist = <<>>
    /\ score = NoVal
    /\ n \in 1..NMax
    /\ r_def \in 0..2
    /\ spaceshift \in [sp : (0 - 1)..2, sh : (0 - 1)..1, den : {1}]
    /\ sing \in {{}, {<<spaceshift, "j0">>}}
    /\ pf = NoFilter
    /\ cfPc = "call"
    /\ nSolve = 0

\* One call of _calculate_filter.
FilterCall ==
    /\ cfPc = "call"
    /\ pf' = CalcFilter(n, spaceshift, fI, r_def, "filt", sing, nSolve + 1)
    /\ nSolve' = nSolve + 1
    /\ cfPc' = "done"
    /\ UNCHANGED <<axVars, evVars, dsVars, n, r_def, sing, spaceshift,
                   prVars, ioVars, stVars, piVars>>

FilterNext == FilterCall

SpecFilter == FilterInit /\ [][FilterNext]_vars

\* ------------------------- SpecStore: calls of save_filter and load_filter

\* Names, filters and outputs of brute of the calls.
StoreNames == {"a", "b"}
StoreFilters == {[NoFilter EXCEPT !.id = i, !.name = "f"] : i \in {1, 2}}
StoreFulls == {[x0 |-> [on |-> TRUE, idx |-> i], Jout |-> <<Inf>>] : i \in {1, 2}}

StoreInit ==
    /\ AxIdle /\ EvIdle /\ DsIdle /\ CfIdle /\ PrIdle /\ IoIdle /\ PiIdle
    /\ store \in {NoDir, EmptyDir}
    /\ ldOut = NoLoad
    /\ lastSave = NoSave
    /\ stPc = "idle"

\* save_filter(nm, flt) and save_filter(nm, flt, full)
StoreSave ==
    /\ \E nm \in StoreNames, flt \in StoreFilters, full \in StoreFulls \cup {NoFull} :
           /\ store' = SaveFilter(store, nm, flt, full)
           /\ lastSave' = [name |-> nm, filt |-> flt, full |-> full]
    /\ ldOut' = NoLoad
    /\ stPc' = "saved"
    /\ UNCHANGED <<axVars, evVars, dsVars, cfVars, prVars, ioVars, piVars>>

\* load_filter(nm) and load_filter(nm, full=True)
StoreLoad ==
    /\ \E nm \in StoreNames, fl \in BOOLEAN :
           /\ ldOut' = LoadFilter(store, nm, fl)
           /\ store' = AfterLoad(store, nm)
    /\ stPc' = "loaded"
    /\ UNCHANGED <<axVars, evVars, dsVars, cfVars, prVars, ioVars, piVars, lastSave>>

StoreNext == StoreSave \/ StoreLoad

SpecStore == StoreInit /\ [][StoreNext]_vars

\* ------------------------------------- SpecVersions: one call of versions

\* An argument: a string, or a package given as a module, in a tuple or in a list.
StrArg(m) == [kind |-> "str", val |-> m]
PkgArg(k) == [kind |-> k, val |-> "pytest"]
EmptyList == [kind |-> "list", val |-> ""]

PkgKinds == {"module", "tuple", "list"}
Modes == {"print", "plain", "html", "HTML", "Pretty", "text"}
Optional == {"IPython", "numexpr", "matplotlib"}

\* The calls: no, one or two positional arguments, mode given by keyword or not.
VersionCalls ==
    [pos : {<<>>} \cup {<<PkgArg(k)>> : k \in PkgKinds}
                 \cup {<<StrArg(m)>> : m \in Modes}
                 \cup {<<StrArg(m), PkgArg(k)>> : m \in Modes, k \in PkgKinds},
     kw  : {"none", "plain", "html", "text"}]

\* Line 59: the parameters (mode, add_pckg) as Python binds the arguments; a
\* first positional argument together with the keyword mode is a TypeError.
BindMode(call) ==
    IF Len(call.pos) >= 1 THEN call.pos[1]
    ELSE IF call.kw # "none" THEN StrArg(call.kw) ELSE StrArg("print")

BindAddPckg(call) == IF Len(call.pos) >= 2 THEN call.pos[2] ELSE EmptyList

\* The optional packages that can be imported, in the order of line 235.
OptionalOf(env) ==
    (IF "IPython" \in env THEN <<"IPython">> ELSE <<>>)
    \o (IF "numexpr" \in env THEN <<"numexpr">> ELSE <<>>)
    \o (IF "matplotlib" \in env THEN <<"matplotlib">> ELSE <<>>)

\* _get_packages(add_pckg): the names of the packages of the report.
GetPackages(add, env) ==
    <<"numpy", "scipy", "empymod", "empyscripts">> \o OptionalOf(env)
    \o (IF add = EmptyList THEN <<>> ELSE <<add.val>>)

\* versions_text(add_pckg), versions_html(add_pckg, ncol): one line or one row
\* of version and name for every package; a string given as package has no
\* __version__.
Report(how, form, add, env) ==
    IF add.kind = "str"
    THEN [how |-> "raise", form |-> "AttributeError", lines |-> <<>>]
    ELSE [how |-> how, form |-> form, lines |-> GetPackages(add, env)]

\* Lines 110-119 on the bound parameters.
Versions(call, env) ==
    LET mode == BindMode(call)
        add  == BindAddPckg(call)
    IN  IF Len(call.pos) >= 1 /\ call.kw # "none"
        THEN [how |-> "raise", form |-> "TypeError", lines |-> <<>>]
        ELSE IF mode = StrArg("html") THEN Report("return", "html", add, env)
        ELSE IF mode = StrArg("plain") THEN Report("return", "text", add, env)
        ELSE IF mode = StrArg("Pretty") /\ "IPython" \in env
             THEN Report("return", "Pretty", add, env)
        ELSE IF mode = StrArg("HTML") /\ "IPython" \in env
             THEN Report("return", "HTML", add, env)
        ELSE Report("print", "text", add, env)

VersionsInit ==
    /\ AxIdle /\ EvIdle /\ DsIdle /\ CfIdle /\ PrIdle /\ IoIdle /\ StIdle
    /\ vCall \in VersionCalls
    /\ vEnv \in SUBSET Optional
    /\ vOut = NoOut
    /\ vPc = "call"

VersionsCall ==
    /\ vPc = "call"
    /\ vOut' = Versions(vCall, vEnv)
    /\ vPc' = "done"
    /\ UNCHANGED <<axVars, evVars, dsVars, cfVars, prVars, ioVars, stVars, vCall, vEnv>>

VersionsNext == VersionsCall

SpecVersions == VersionsInit /\ [][VersionsNext]_vars

\* ------------------------------------------------------- claims on _ls2ar

\* C1: for a 3-tuple (start, stop, count) with count >= 2 and start # stop,
\* _ls2ar returns (start, stop + step/2, step) with step = (stop - start)/(count - 1),
\* and iterating start, start + step, ... short of the returned upper bound yields
\* exactly count values, the first equal to start and the last equal to stop.
C1_RegularAxis ==
    (axPc = "done" /\ Len(axInp) = 3 /\ axInp[3] >= 2 /\ axInp[1] # axInp[2]) =>
        LET start == axInp[1]
            stop  == axInp[2]
            count == axInp[3]
        IN  /\ axOut.err = ""
            /\ axOut.den > 0
            /\ axOut.start = start * axOut.den
            /\ axOut.step * (count - 1) = (stop - start) * axOut.den
            /\ 2 * axOut.stop = 2 * stop * axOut.den + axOut.step
            /\ Len(axPts) = count
            /\ axPts[1] = start * axOut.den
            /\ axPts[count] = stop * axOut.den
            /\ \A i \in 1..Len(axPts) :
                  /\ axPts[i] = axOut.start + (i - 1) * axOut.step
                  /\ IF axOut.step > 0 THEN axPts[i] < axOut.stop
                                       ELSE axPts[i] > axOut.stop

\* A descending three-point axis has been built.
C1_Witness ==
    /\ axPc = "done" /\ Len(axInp) = 3 /\ axInp[3] = 3 /\ axInp[1] > axInp[2]
    /\ Len(axPts) = 3

\* C2: a one-element input, and a 3-tuple with count < 2 or start = stop, give a
\* descriptor whose iteration yields exactly one value, equal to start, whatever
\* the stop of the 3-tuple; no error is raised.
C2_UnitAxis ==
    (/\ axPc = "done"
     /\ \/ Len(axInp) = 1
        \/ Len(axInp) = 3 /\ (axInp[3] < 2 \/ axInp[1] = axInp[2])) =>
        /\ axOut.err = ""
        /\ axOut.den > 0
        /\ Len(axPts) = 1
        /\ axPts[1] = axInp[1] * axOut.den

\* A 3-tuple with count < 2 and a stop different from start has collapsed to one point.
C2_Witness ==
    /\ axPc = "done" /\ Len(axInp) = 3 /\ axInp[3] < 2 /\ axInp[2] > axInp[1] + 1
    /\ Len(axPts) = 1

\* ------------------------------------------------------ claims on design

\* An axis input _ls2ar refuses: neither 1 nor 3 elements.
BadSize(inp) == Len(inp) \notin {1, 3}

\* No candidate has been evaluated and no filter calculated.
NothingEvaluated ==
    /\ calls = <<>>
    /\ Jout = <<>>
    /\ evPc = "idle"
    /\ evFor = "none"
    /\ nTrials = 0
    /\ full0 = NoPoint
    /\ dlf = NoFilter

\* C3: for a spacing or shift whose number of elements is neither 1 nor 3, _ls2ar
\* raises ValueError with the name of the axis, and design aborts there: no
\* candidate is evaluated and no filter is calculated or returned.
C3_InvalidAxisAborts ==
    (pc # "start" /\ (BadSize(spacing) \/ BadSize(shift))) =>
        /\ pc = "error"
        /\ fI[1] # "j2" => err = (IF BadSize(spacing) THEN "spacing" ELSE "shift")
        /\ NothingEvaluated

\* design has aborted on a malformed shift, the spacing being well-formed.
C3_Witness ==
    /\ pc = "error" /\ err = "shift" /\ ~BadSize(spacing) /\ BadSize(shift)
    /\ NothingEvaluated

\* C4: design fails with ValueError('j2') whenever fI holds a pair named j2, at
\* whatever position, before any candidate is evaluated (the axes being well-formed).
C4_J2Rejected ==
    (/\ pc # "start"
     /\ "j2" \in Names(fI)
     /\ ~BadSize(spacing)
     /\ ~BadSize(shift)) =>
        /\ pc = "error"
        /\ err = "j2"
        /\ NothingEvaluated

\* The global search is over: brute has evaluated its grid.
GlobalDone == pc \in {"finish", "final", "report", "qc", "save", "done"}

\* The number of points of an axis, from design's input.
AxisCount(inp) ==
    IF Len(inp) = 3 /\ inp[3] >= 2 /\ inp[1] # inp[2] THEN inp[3] ELSE 1

RECURSIVE SumSeq(_)
SumSeq(q) == IF q = <<>> THEN 0 ELSE q[1] + SumSeq(Tail(q))

\* C5 as stated: in the global search every grid point is evaluated exactly once,
\* so the number of _get_min_val calls of that phase is size(spacing axis) x
\* size(shift axis), the totnr of the log.
C5_ExactlyOnce ==
    GlobalDone =>
        /\ log.totnr = AxisCount(spacing) * AxisCount(shift)
        /\ Len(calls) = log.totnr
        /\ \A p \in 1..Len(calls) : calls[p] = 1
        /\ SumSeq(calls) = log.totnr

\* C5, amended: every grid point is evaluated, every point but the first exactly
\* once, the first once or (when np.vectorize calls the function to find its output
\* type) twice; the phase makes totnr or totnr + 1 calls and stores one score per
\* point, totnr being size(spacing axis) x size(shift axis).
C5_GridVisited ==
    GlobalDone =>
        /\ log.totnr = AxisCount(spacing) * AxisCount(shift)
        /\ Len(calls) = log.totnr
        /\ Len(Jout) = log.totnr
        /\ \A p \in 2..Len(calls) : calls[p] = 1
        /\ calls[1] = (IF probe THEN 2 ELSE 1)
        /\ SumSeq(calls) \in {log.totnr, log.totnr + 1}

\* A 2 x 2 grid has been searched, its first point evaluated twice.
C5_Witness ==
    /\ GlobalDone /\ log.totnr = 4 /\ Len(calls) = 4 /\ calls[1] = 2 /\ calls[4] = 1
    /\ AxisCount(spacing) = 2 /\ AxisCount(shift) = 2

\* a <= b on floats
FLe(a, b) == FGt(b, a) \/ FEq(a, b)

\* C6: the point the global search retains has a score that is minimal over the
\* grid (no more than the score of any other grid point that has a score, i.e. is
\* not NaN), and it is the first point of the enumeration with that score.
C6_BestIsFirstMinimum ==
    (best # 0) =>
        /\ \A j \in 1..Len(Jout) :
               (j # best /\ Jout[j] # NaN) => FLe(Jout[best], Jout[j])
        /\ \A j \in 1..(best - 1) : ~FEq(Jout[j], Jout[best])

C8_UselessIsInf ==
    (evPc = "done") =>
        \A p \in 1..Len(hist) :
            hist[p].kind \in {"zero", "nonfinite"} =>
                (hist[p].imin0 = 0 /\ score = Inf)

\* C9 as stated: of two check pairs with scalars s1 < s2, the returned score is s2.
C9_LargerScalarReturned ==
    (evPc = "done" /\ Len(hist) = 2) =>
        /\ FGt(hist[2].min_val0, hist[1].min_val0) => score = hist[2].min_val0
        /\ FGt(hist[1].min_val0, hist[2].min_val0) => score = hist[1].min_val0

\* C9, amended: of two check pairs with scalars s1 < s2, the pair with s2
\* determines the score: the score is s2, unless the breakdown index of that pair
\* is 0, and then it is infinity.
C9_HardestPairWins ==
    (evPc = "done" /\ Len(hist) = 2) =>
        /\ FGt(hist[2].min_val0, hist[1].min_val0) =>
               score = (IF hist[2].imin0 = 0 THEN Inf ELSE hist[2].min_val0)
        /\ FGt(hist[1].min_val0, hist[2].min_val0) =>
               score = (IF hist[1].imin0 = 0 THEN Inf ELSE hist[1].min_val0)

\* In amplitude mode the first pair had the larger scalar, a finite one, and the
\* second pair did not replace it.
C9_Witness ==
    /\ evPc = "done" /\ Len(hist) = 2 /\ cvar = "amp"
    /\ FGt(hist[1].min_val0, hist[2].min_val0)
    /\ hist[1].imin0 # 0
    /\ score = hist[1].min_val0

\* r is positive and strictly increasing.
Ascending(rr) ==
    /\ \A i \in DOMAIN rr : rr[i] > 0
    /\ \A i, j \in DOMAIN rr : i < j => rr[i] < rr[j]

\* C10: the scalar of a check pair is 1/r[imin0] in range mode and |rhs[imin0]| in
\* amplitude mode; in range mode with r positive and strictly increasing, of two
\* pairs the one with the larger breakdown index has the strictly smaller scalar.
C10_ReductionModes ==
    /\ (evPc = "iter") =>
           LET h == hist[Len(hist)]
           IN  /\ h.imin0 \in DOMAIN rhs
               /\ cvar = "r" =>
                      /\ h.min_val0.k = "fin"
                      /\ h.min_val0.n * r[h.imin0] = h.min_val0.d
               /\ cvar = "amp" => h.min_val0 = FAbs(ValOf(rhs[h.imin0], h.imin0))
    /\ (cvar = "r" /\ Ascending(r)) =>
           \A p, q \in 1..Len(hist) :
               hist[p].imin0 > hist[q].imin0 =>
                   FGt(hist[q].min_val0, hist[p].min_val0)

\* Range mode, ascending r: the second pair broke down later than the first.
C10_Witness ==
    /\ evPc = "iter" /\ cvar = "r" /\ Ascending(r) /\ Len(hist) = 2
    /\ hist[2].imin0 > hist[1].imin0
    /\ hist[1].imin0 > 0

\* ------------------------------------------------ claims on _calculate_filter

\* C11: for n >= 1 and spacing > 0 the filter _calculate_filter returns has a base
\* of exactly n points, strictly increasing and positive, and one coefficient array
\* per name of fI, each of length exactly n, solved or zero.
C11_FilterShape ==
    (cfPc = "done" /\ spaceshift.sp > 0) =>
        /\ Len(pf.base) = n
        /\ \A i, j \in 1..Len(pf.base) : i < j => pf.base[i].ln < pf.base[j].ln
        /\ \A i \in 1..Len(pf.base) : pf.base[i].pos
        /\ DOMAIN pf.coef = Names(fI)
        /\ \A tag \in DOMAIN pf.coef : pf.coef[tag].len = n

\* A filter of three points with one array solved and one replaced by zeros.
C11_Witness ==
    /\ cfPc = "done" /\ spaceshift.sp > 0 /\ n = 3 /\ r_def = 2
    /\ fI = <<"j0", "j1">>
    /\ pf.coef["j0"].zero /\ ~pf.coef["j1"].zero
    /\ pf.coef["j0"].len = 3 /\ pf.coef["j1"].len = 3

\* ------------------------------------------------ claims on the final filter

\* C12: the filter design returns comes from a solver call of its own, made after
\* the search has ended (it is the call that follows the calls of all the
\* evaluations), at the point full[0] and under the caller's name (or the default
\* 'dlf_'+str(n)); it is not the probe filter of an evaluation, and where the last
\* probe filter was built at the same point it has the same base and coefficients.
C12_FinalIsRecomputed ==
    (dlf # NoFilter) =>
        /\ dlf.name = (IF name = "None" THEN "dlf_" \o ToString(n) ELSE name)
        /\ dlf.name # "filt"
        /\ dlf.id = SumSeq(calls) + nTrials + 1
        /\ dlf.id # pf.id
        /\ pf.name = "filt"
        /\ Len(Jout) = GridSize(ispacing, ishift)
        /\ LET pt == IF full0.on THEN GridCoord(full0.idx) ELSE TrialCoord(full0.idx)
           IN  /\ Len(dlf.base) = n
               /\ \A i \in 1..n : dlf.base[i].ln = pt.sp * ((i - 1) - (n \div 2)) + pt.sh
               /\ dlf.den = pt.den
               /\ \A tag \in Names(fI) :
                      dlf.coef[tag].zero = (tag = "j2" \/ <<pt, tag>> \in sing)
               /\ (spaceshift = pt /\ evPc # "solve") =>
                      (pf.base = dlf.base /\ pf.coef = dlf.coef)

\* The second of two grid points won; its probe filter, the last one built, and
\* the returned filter have zeros for j0 and solved coefficients for j1.
C12_Witness ==
    /\ pc = "done" /\ ~finish /\ best = 2 /\ full0 = [on |-> TRUE, idx |-> 2]
    /\ fI = <<"j0", "j1">>
    /\ dlf.coef["j0"].zero /\ ~dlf.coef["j1"].zero
    /\ pf.coef = dlf.coef /\ pf.id = 2 /\ dlf.id = 3
    /\ dlf.name = "dlf_2"

\* A solve for the pair named tag failed at the grid point p, and the pair is checked.
SolveFailedAt(p) ==
    \E tag \in Names(fI) \cap Names(fC) : <<GridCoord(p), tag>> \in sing

\* C13: a failing factorization or solve raises nothing: the pair gets zeros of
\* length n, the candidate's score is degraded to the worst score, infinity, and
\* the search evaluates all the other grid points.
C13_FailureDegrades ==
    /\ err # "LinAlgError"
    /\ \A p \in 1..Len(Jout) : SolveFailedAt(p) => Jout[p] = Inf
    /\ (GlobalDone /\ sing # {}) => Len(Jout) = GridSize(ispacing, ishift)
    /\ (evPc = "loop" /\ sing # {}) =>
           \A tag \in Names(fI) :
               (<<spaceshift, tag>> \in sing) => pf.coef[tag] = [zero |-> TRUE, len |-> n]

\* ------------------------------------------------ claims on the transform pairs

\* C14: design only reads the pairs the caller passes as fI and as fC: no step of
\* a run changes the rhs of one of these objects (name and lhs are never assigned).
C14_PairsOnlyRead ==
    [][/\ rhsI' = rhsI
       /\ (fCin = "own") => (rhsC' = rhsC)]_vars

\* ------------------------------------------------ claims on the collaborators

\* C15, as stated: the printing, plotting and saving routines are called by
\* design only, never by _get_min_val or _calculate_filter.
C15_OnlyDriverCalls ==
    \A c \in io : c[1] = "design"

\* C15, amended: _calculate_filter calls none of the routines and save_filter is
\* called by design only, but _get_min_val calls _print_count when its verb > 1
\* and _plot_inversion when its plot > 2, which it is in every call if the plot
\* of design is > 2 and in the call for the best filter if it is 2.
C15_EvaluatorCalls ==
    /\ \A c \in io : c[1] \in {"design", "_get_min_val"}
    /\ \A c \in io : c[1] = "_get_min_val" => c[2] \in {"_print_count", "_plot_inversion"}
    /\ <<"_get_min_val", "_print_count">> \in io <=> (verb > 1 /\ (Len(Jout) >= 1 \/ probed))
    /\ <<"_get_min_val", "_plot_inversion">> \in io =>
           \/ plot > 2
           \/ plot = 2 /\ dlf # NoFilter /\ pc \in {"qc", "save", "done"}
    /\ (plot > 2 /\ Len(Jout) >= 1) => <<"_get_min_val", "_plot_inversion">> \in io
    /\ (plot > 1 /\ pc = "done") => <<"_get_min_val", "_plot_inversion">> \in io

C15_Witness ==
    /\ pc = "done" /\ plot = 2 /\ verb = 2
    /\ <<"_get_min_val", "_print_count">> \in io
    /\ <<"_get_min_val", "_plot_inversion">> \in io
    /\ <<"design", "plot_result">> \in io

\* ------------------------------------------------ claims on the phases of a run

\* The phases of a run in their order.
PhaseRank ==
    CASE pc = "start" -> 0
      [] pc = "rhs" -> 1
      [] pc = "grid" -> 2
      [] pc = "finish" -> 3
      [] pc = "final" -> 4
      [] pc \in {"report", "qc", "save"} -> 5
      [] pc = "done" -> 6
      [] pc = "error" -> 7

\* C16, as stated: the phases follow each other in order, grid points are
\* evaluated in the global search only, and once the final filter is there
\* _get_min_val is not running again.
C16_StrictPhases ==
    /\ (evPc # "idle" /\ evFor \in {"grid", "probe"}) => pc = "grid"
    /\ (evPc # "idle" /\ evFor = "trial") => pc = "finish"
    /\ dlf # NoFilter => evPc = "idle"

\* C16, amended: the phases follow each other in order and never go back, grid
\* points are evaluated in the global search only and trial points in the
\* refinement only; once the final filter is there _get_min_val runs once more
\* if plot > 1, and only then, at full[0], and neither the scores, nor full[0],
\* nor the filter change any more.
C16_PhasesInOrder ==
    /\ [][PhaseRank' >= PhaseRank]_vars
    /\ []((evPc # "idle" /\ evFor \in {"grid", "probe"}) => pc = "grid")
    /\ []((evPc # "idle" /\ evFor = "trial") => pc = "finish")
    /\ []((dlf # NoFilter /\ evPc # "idle") =>
              (pc = "qc" /\ plot > 1 /\ evFor = "qc" /\ spaceshift = CoordOf(full0)))
    /\ []((dlf # NoFilter /\ plot > 1 /\ pc = "done") => evFor = "qc")
    /\ [][dlf # NoFilter => (dlf' = dlf /\ Jout' = Jout /\ full0' = full0)]_vars

C16_Witness ==
    /\ pc = "qc" /\ evPc = "loop" /\ dlf # NoFilter /\ plot = 2 /\ finish
    /\ nTrials = 1 /\ Len(Jout) = 1

\* ------------------------------------------------ claims on finish

NothingStored(st, nm) == Shelf(st, nm) = NoEntry

\* C18: a load that follows the save of its name returns the saved filter, with
\* full=True together with the saved output of brute if the save had one and
\* alone if it had none; the load of a name nothing was stored under raises
\* KeyError.
C18_RoundTrip ==
    (stPc = "loaded") =>
        /\ (lastSave.name = ldOut.name /\ ~ldOut.full) =>
               (ldOut.res = "dlf" /\ ldOut.dlf = lastSave.filt)
        /\ (lastSave.name = ldOut.name /\ ldOut.full /\ lastSave.full # NoFull) =>
               (ldOut.res = "pair" /\ ldOut.dlf = lastSave.filt /\ ldOut.out = lastSave.full)
        /\ (lastSave.name = ldOut.name /\ ldOut.full /\ lastSave.full = NoFull) =>
               (ldOut.res = "dlf" /\ ldOut.dlf = lastSave.filt)
        /\ NothingStored(store, ldOut.name) => ldOut.res = "KeyError"

\* ------------------------------------------------ claims on versions

\* The report has a line for the package named nm.
HasLine(nm) == \E i \in 1..Len(vOut.lines) : vOut.lines[i] = nm

\* C19: versions called with a package as first positional argument, as a module,
\* in a tuple or in a list, prints or returns a report that lists numpy and the
\* given package; with no mode or with the unknown mode 'text' it prints the
\* text report.
C19_PackageFirst ==
    (vPc = "done" /\ Len(vCall.pos) = 1 /\ vCall.pos[1].kind \in PkgKinds) =>
        /\ vOut.how \in {"print", "return"}
        /\ HasLine("numpy")
        /\ HasLine("pytest")
        /\ (vCall.kw \in {"none", "text"}) => (vOut.how = "print" /\ vOut.form = "text")

\* ------------------------------------------------ claims on the skip rule

\* The points at which the approximation a is off the reference by more than
\* the tolerance: twice the reference, or zero.
Violating(a) == {i \in DOMAIN a : a[i] \in {"bad", "zero", "inf"}}

\* The j-th violating index of a, counted from 0.
ViolationAt(a, j) == CHOOSE x \in Violating(a) : Cardinality({y \in Violating(a) : y < x}) = j

\* C20: for a check pair with a violating index and an approximation that is
\* neither all zero nor all NaN the breakdown index is max(0, v[4] - 5) if there
\* are more than 4 violating indices and max(0, v[0] - 1) if there are 1 to 4.
C20_SkipRule ==
    (evPc = "iter" /\ Violating(rhs) # {}
        /\ (\E i \in DOMAIN rhs : rhs[i] # "zero") /\ (\E i \in DOMAIN rhs : rhs[i] # "nan")) =>
        LET got == hist[Len(hist)].imin0
        IN  IF Cardinality(Violating(rhs)) > 4
            THEN got = IntMax(0, ViolationAt(rhs, 4) - 5)
            ELSE got = IntMax(0, ViolationAt(rhs, 0) - 1)

\* Five violations, the fifth at index 7: the breakdown index is 2, although
\* the first point already violates.
C20_Witness ==
    /\ evPc = "iter"
    /\ Violating(rhs) = {0, 1, 2, 3, 7}
    /\ hist[1].imin0 = 2

\* ------------------------------------------------ claims on the warning

\* The pair handled last in the running call of _get_min_val has no point
\* beyond the tolerance.
LastPairClean == evPc \in {"loop", "ret"} /\ rhs # NoRhs /\ Violating(rhs) = {}

ConsistentFailure(a) ==
    /\ Cardinality(Violating(a)) > 4
    /\ \A i, j \in Violating(a) : \A k \in i..j : k \in Violating(a)

\* C22: if the violating indices are one contiguous run of more than 4 indices
\* starting at v, the breakdown index, which the code takes from the fifth
\* violation, is the one the first violation gives: max(0, v - 1).
C22_ConsistentFailure ==
    (evPc = "iter" /\ ConsistentFailure(rhs)) =>
        /\ hist[Len(hist)].imin0 = IntMax(0, ViolationAt(rhs, 0) - 1)
        /\ ViolationAt(rhs, 4) - 5 = ViolationAt(rhs, 0) - 1

\* The points 2 to 7 violate: the breakdown index is 1.
C22_Witness ==
    /\ evPc = "iter"
    /\ Violating(rhs) = 2..7
    /\ hist[1].imin0 = 1

\* ------------------------------------------------ claims on the score

\* The position in h of the pair that determines the score among the first k
\* records: the first one, replaced by each later one of strictly larger scalar.
RECURSIVE Determining(_, _)
Determining(h, k) ==
    IF k <= 1 THEN 1
    ELSE LET p == Determining(h, k - 1)
         IN  IF FGt(h[k].min_val0, h[p].min_val0) THEN k ELSE p

\* The score that follows from the records h of the check pairs.
ScoreOfPairs(h) ==
    LET d == h[Determining(h, Len(h))]
    IN  IF d.imin0 = 0 THEN Inf ELSE d.min_val0

\* C23: the score of a candidate follows from the approximations of its check
\* pairs alone, whatever the log, verb, plot and the candidates evaluated
\* before, and the steps of an evaluation change nothing but the locals of the
\* call, its probe filter and the log.
C23_ScorePure ==
    /\ []((evPc = "ret" /\ pc # "error") =>
              /\ imin = hist[Determining(hist, Len(hist))].imin0
              /\ min_val = hist[Determining(hist, Len(hist))].min_val0)
    /\ [][(evPc = "ret" /\ evPc' = "idle" /\ evFor = "grid") =>
              Jout' = Append(Jout, ScoreOfPairs(hist))]_vars
    /\ [][(evPc \in {"solve", "loop", "ret"}) =>
              UNCHANGED <<fI, fC, rhsI, rhsC, r, cvar, verb, plot, n, r_def, sing, spaceshift,
                          spacing, shift, ispacing, ishift, finish, best, full0, dlf, store,
                          calls, nTrials>>]_vars

\* A candidate's second pair determines the score, with the warning recorded,
\* the count printed and an earlier candidate evaluated.
C23_Witness ==
    /\ evPc = "ret" /\ pc = "grid" /\ Len(hist) = 2 /\ Determining(hist, 2) = 2
    /\ verb = 2 /\ log.warn = 1 /\ log.cnt2 >= 1 /\ Len(Jout) >= 1
    /\ imin > 0

\* C24: the score does not depend on the order of the check pairs: with two
\* check pairs the returned score is the one their records give when listed
\* the other way round.
C24_OrderFree ==
    (evPc = "done" /\ Len(hist) = 2) =>
        score = ScoreOfPairs(<<hist[2], hist[1]>>)

\* ------------------------------------------------ claims on stale output

C26_InversionRhsKept ==
    [][(fCin \in {"none", "same"}) => (rhsI' = rhsI)]_vars

\* ------------------------------------------------ claims on the skipped points

\* C27: the breakdown index of a check pair is an index of r; at most 4 of the
\* points at or below it violate the tolerance, and if at most 4 points
\* violate it at all, none of them is strictly below the breakdown index.
C27_SkipsAtMostFour ==
    (evPc = "iter") =>
        LET got == hist[Len(hist)].imin0
        IN  /\ got \in 0..(Cardinality(DOMAIN r) - 1)
            /\ Cardinality({i \in Violating(rhs) : i <= got}) <= 4
            /\ Cardinality(Violating(rhs)) <= 4 => {i \in Violating(rhs) : i < got} = {}

\* The first four points and the last one violate: the breakdown index is 4,
\* with four violating points below it.
C27_Witness ==
    /\ evPc = "iter"
    /\ Violating(rhs) = {0, 1, 2, 3, 9}
    /\ hist[1].imin0 = 4
    /\ Cardinality({i \in Violating(rhs) : i <= hist[1].imin0}) = 4

====
